---- MODULE Spec2Model ----
(***************************************************************************)
(* namelizer: one batch pass over a user's Strava activities               *)
(* (src/namelizer.py).  A run of main() loads config.yaml and secrets.pkl, *)
(* refreshes the access token when it has expired, lists the activities    *)
(* after last_check, and for each of them updates the name and the         *)
(* description from the user's templates when the special character asks   *)
(* for it.  Strings are sequences of one-character strings; an optional    *)
(* value (an attribute that may be missing, a JSON value that may be null) *)
(* is a sequence of length 0 or 1.                                         *)
(***************************************************************************)
EXTENDS Integers, Sequences, FiniteSets, TLC

VARIABLES
    clock,              \* time.time(), in seconds
    run,                \* number of the current invocation of main()
    pc,                 \* position of main() in its code
    yaml,               \* the content of config.yaml
    secrets,            \* the content of secrets.pkl: <<>> when the file is missing
    user,               \* the User object's __dict__ (config in main)
    updated_activities, \* main's counter
    listed,             \* the list main iterates over (ids)
    idx,                \* position of the for loop in listed
    activity,           \* main's loop variable after the detail fetch
    change,             \* update_activity's argument: "name" or "description"
    weather,            \* format_template's local
    location,           \* format_template's start_location, end_location
    new,                \* update_activity's local: the rendered text
    grant,              \* call_auth's auth_data["grant_type"]
    remote,             \* the activities held by the remote service
    issued,             \* number of access tokens issued by the remote service
    calls,              \* the remote calls of this run, in order
    seen,               \* the detail records this run has fetched, in order
    auth,               \* call_auth's local: the answer of the token endpoint
    link,               \* initial_auth: the URL the user pastes at the prompt
    code                \* initial_auth's local: the authorization code it sends

vars == << clock, run, pc, yaml, secrets, user, updated_activities, listed, idx,
           activity, change, weather, location, new, grant, remote, issued, calls,
           seen, auth, link, code >>

----------------------------------------------------------------------------
(* Bounds of the model *)

NumActivities == 2
MaxRuns == 2

----------------------------------------------------------------------------
(* Strings *)

Str_weather == << "w", "e", "a", "t", "h", "e", "r" >>
Str_location == << "l", "o", "c", "a", "t", "i", "o", "n" >>

\* Python's `sub in s` on strings
Contains(s, sub) ==
    \E i \in 0..(Len(s) - Len(sub)) : SubSeq(s, i + 1, i + Len(sub)) = sub

RECURSIVE Concat(_)
Concat(ss) == IF ss = << >> THEN << >> ELSE Head(ss) \o Concat(Tail(ss))

----------------------------------------------------------------------------
(* Jinja templates.  A template is a sequence of tokens: literal text, or  *)
(* an expression written between {{ and }} in the template's text.         *)

Lit(s) == [k |-> "lit", s |-> s]
Expr(s) == [k |-> "expr", s |-> s]

\* The text of a template as it stands in config.yaml
Text(temp) ==
    Concat([i \in 1..Len(temp) |->
              IF temp[i].k = "lit" THEN temp[i].s
              ELSE << "{", "{" >> \o temp[i].s \o << "}", "}" >>])

Expr_weather == Str_weather \o << ".", "t" >>
Expr_start == << "s", "t", "a", "r", "t", "_" >> \o Str_location \o << ".", "c" >>
Expr_end == << "e", "n", "d", "_" >> \o Str_location \o << ".", "c" >>

TPlain == << Lit(<< "o", "k" >>) >>
TWeather == << Expr(Expr_weather), Lit(<< "!" >>) >>
TLocation == << Expr(Expr_start), Lit(<< "-" >>), Expr(Expr_end) >>

Templates == { TPlain, TWeather, TLocation }

\* Jinja's value of an expression: an attribute of None is Undefined, which
\* renders as the empty string.
Eval(e, w, loc) ==
    CASE e = Expr_weather -> IF w = << >> THEN << >> ELSE w[1].t
      [] e = Expr_start -> IF loc = << >> THEN << >> ELSE loc[1].c
      [] e = Expr_end -> IF loc = << >> THEN << >> ELSE loc[2].c
      [] OTHER -> << >>

\* Template(temp).render(activity=..., start_location=..., end_location=..., weather=...)
Render(temp, w, loc) ==
    Concat([i \in 1..Len(temp) |->
              IF temp[i].k = "lit" THEN temp[i].s ELSE Eval(temp[i].s, w, loc)])

----------------------------------------------------------------------------
(* Time *)

\* int(time.mktime(time.strptime(s, "%Y-%m-%dT%H:%M:%SZ"))) of a timestamp
\* given by its day since the epoch and its hour
ToUnix(s) == (s.day * 24 + s.hour) * 3600

Clock0 == ToUnix([day |-> 1, hour |-> 0])

----------------------------------------------------------------------------
(* The User object *)

SecretKeys == { "access_token", "refresh_token", "expires_at", "last_check" }
ConfigKeys == { "client_id", "client_secret", "special_char", "name_template",
                "des_template", "weather_api", "other" }
Keys == SecretKeys \cup ConfigKeys \cup { "activity_updated" }

\* hasattr(self, k)
HasAttr(u, k) == Len(u[k]) = 1
Attr(u, k) == u[k][1]

NoAttrs == [k \in Keys |-> << >>]

\* User.__init__ on pickle_data.update(yaml_config): the keys of config.yaml
\* take precedence over those of secrets.pkl
Merged(pickle_data, yaml_config) ==
    [k \in Keys |->
        IF k \in DOMAIN yaml_config /\ Len(yaml_config[k]) = 1 THEN yaml_config[k]
        ELSE IF k \in DOMAIN pickle_data THEN pickle_data[k]
        ELSE << >>]

\* Mutation: client_secret is not among the required fields
check_required_SecretUnchecked(u) ==
    /\ HasAttr(u, "client_id")
    /\ HasAttr(u, "name_template") \/ HasAttr(u, "des_template")

\* User.check_required: TRUE when no NameError is raised
check_required(u) ==
    /\ HasAttr(u, "client_id")
    /\ HasAttr(u, "client_secret")
    /\ HasAttr(u, "name_template") \/ HasAttr(u, "des_template")

\* Mutation: store_secrets dumps the whole __dict__
Stored_All(u) == [k \in { j \in Keys : HasAttr(u, j) } |-> u[k]]

\* the keys store_secrets dumps
Stored(u) == [k \in { j \in SecretKeys : HasAttr(u, j) } |-> u[k]]

----------------------------------------------------------------------------
(* The remote service *)

Ids == 1..NumActivities

StartOf(i) == [day |-> 1 + i, hour |-> 8]

\* The names and descriptions an activity can have: a name is a string, a
\* description is null (<< >>) or a string
Shapes ==
    { [name |-> << >>,           description |-> << >>],
      [name |-> << "*", "r" >>,  description |-> << << >> >>],
      [name |-> << "*", "r" >>,  description |-> << << "*", "d" >> >>],
      [name |-> << "r" >>,       description |-> << << "*", "d" >> >>],
      [name |-> << "r" >>,       description |-> << << "d" >> >>],
      [name |-> << "r" >>,       description |-> << >>] }

Activities(i) ==
    { [id |-> i, name |-> s.name, description |-> s.description,
       start_date_local |-> StartOf(i)] : s \in Shapes }

\* The body of a non-2xx answer, which get_activities returns like any other:
\* it has a message and no id, name, description or start_date_local.  Here
\* it is the record with no id (0), whose name cannot be indexed and whose
\* description is None for activity.get.
ErrorBody ==
    [id |-> 0, name |-> << >>, description |-> << >>,
     start_date_local |-> [day |-> 0, hour |-> 0]]

\* The page size of the listing
PageSize == 30

RECURSIVE Orders(_)
Orders(S) ==
    IF S = {} THEN { << >> }
    ELSE UNION { { << i >> \o o : o \in Orders(S \ {i}) } : i \in S }

\* GET athlete/activities?after=t: the activities that start after t, at most
\* a page of them, in the order the service chooses
Listings(t) ==
    LET after == { i \in Ids : ToUnix(remote[i].start_date_local) > t }
        n == IF Cardinality(after) < PageSize THEN Cardinality(after) ELSE PageSize
    IN  UNION { Orders(S) : S \in { T \in SUBSET after : Cardinality(T) = n } }

\* One remote call: the bearer token it carries (0: none), the activity it is
\* about (0: none), the fields it is made for (the keys of a PUT's data, the
\* field being rendered for a weather or geocoding call), and whether it was
\* answered (FALSE: the request raised, or its answer lacks what the caller reads)
Call(op, token, id, fields, ok) ==
    [op |-> op, token |-> token, id |-> id, fields |-> fields, ok |-> ok]

----------------------------------------------------------------------------
(* The initial states: a config.yaml, the activities of the remote         *)
(* service, and either no secrets.pkl or one that an earlier run wrote.    *)

SpecialChars == { << >>, << << >> >>, << << "*" >> >> }
OptTemplates == { << >> } \cup { << t >> : t \in Templates }
WeatherApis == { << >>, << 1 >> }
ClientFields == { << >>, << 1 >> }

Configs ==
    [client_id : ClientFields, client_secret : ClientFields, special_char : SpecialChars,
     name_template : OptTemplates, des_template : OptTemplates, weather_api : WeatherApis,
     other : { << 1 >> }]

NoPickle == [k \in {} |-> << >>]

InitSecrets ==
    { << >> } \cup
    { << [access_token |-> << 1 >>, refresh_token |-> << 1 >>,
          expires_at |-> << e >>, last_check |-> << l >>] >> :
        e \in { Clock0 }, l \in { Clock0 } }

Init ==
    /\ clock = Clock0
    /\ run = 1
    /\ pc = "start"
    /\ yaml \in Configs
    /\ secrets \in InitSecrets
    /\ user = NoAttrs
    /\ updated_activities = 0
    /\ listed = << >>
    /\ idx = 0
    /\ activity = << >>
    /\ change = "-"
    /\ weather = << >>
    /\ location = << >>
    /\ new = << >>
    /\ grant = "-"
    /\ remote \in { r \in [Ids -> UNION { Activities(i) : i \in Ids }] :
                      \A i \in Ids : r[i].id = i }
    /\ issued = IF secrets = << >> THEN 0 ELSE 1
    /\ calls = << >>
    /\ seen = << >>
    /\ auth = << >>
    /\ link = << >>
    /\ code = << >>

----------------------------------------------------------------------------
(* main() *)

last_check == Attr(user, "last_check")
access_token == Attr(user, "access_token")

\* Mutation: main catches the exception and stores the secrets before it ends
Abort_ThenStore == pc' = "store"

\* the exception leaves main(): the process ends without store_secrets
Abort == pc' = "aborted"

\* Mutation: the initial authorization is entered whatever secrets.pkl holds
AfterLoad_AlwaysAuth(s, u) ==
    IF ~check_required(u) THEN "aborted" ELSE "initial_auth"

\* main, lines 220-232: where main goes once the User u is constructed from
\* the secrets file s
AfterLoad(s, u) ==
    IF ~check_required(u) THEN "aborted"
    ELSE IF s = << >> THEN "initial_auth"
    ELSE "check_expiry"

\* main, lines 217-232: read config.yaml and secrets.pkl, construct the User
Load ==
    /\ pc = "start"
    /\ LET u == IF secrets = << >> THEN Merged(NoPickle, yaml)
                ELSE Merged(secrets[1], yaml)
       IN  /\ user' = u
           /\ pc' = AfterLoad(secrets, u)
    /\ updated_activities' = 0
    /\ UNCHANGED << clock, run, yaml, secrets, listed, idx, activity, change,
                    weather, location, new, grant, remote, issued, calls, seen,
                    auth, link, code >>

\* The query of the redirect URL, a sequence of name=value parameters.  The
\* service appends state, code and scope; state is blank, since the program's
\* authorization link passes none.
Val_code == << "c", "1" >>
Val_scope == << "r" >>

Params ==
    { [name |-> "state", value |-> << >>],
      [name |-> "code", value |-> Val_code],
      [name |-> "scope", value |-> Val_scope] }

\* The URLs the user may paste: up to two of the parameters, in any order
Links ==
    { << >> } \cup { << p >> : p \in Params }
              \cup { l \in { << p, q >> : p \in Params, q \in Params } : l[1] # l[2] }

\* parse.parse_qsl(query): the parameters in order, without the blank-valued
\* ones (keep_blank_values is left at its default)
parse_qsl(query) == SelectSeq(query, LAMBDA p : p.value # << >>)

\* User.initial_auth up to its call of call_auth: line 147 takes [0][1] of
\* the parsed query, and raises IndexError when there is none
InitialAuth ==
    /\ pc = "initial_auth"
    /\ user' = [user EXCEPT !["last_check"] = << clock >>]
    /\ \E l \in Links :
         /\ link' = << l >>
         /\ IF parse_qsl(l) = << >>
            THEN /\ Abort
                 /\ UNCHANGED << code, grant >>
            ELSE /\ code' = << parse_qsl(l)[1].value >>
                 /\ grant' = "authorization_code"
                 /\ pc' = "call_auth"
    /\ UNCHANGED << clock, run, yaml, secrets, updated_activities, listed, idx,
                    activity, change, weather, location, new, remote, issued, calls,
                    seen, auth >>

\* Mutation: a token is still used at the second it expires
isExpired_Strict(now, u) == now > Attr(u, "expires_at")

\* main, lines 236-237: time.time() >= config.expires_at
isExpired(now, u) == now >= Attr(u, "expires_at")

CheckExpiry ==
    /\ pc = "check_expiry"
    /\ IF isExpired(clock, user)
       THEN /\ grant' = "refresh_token"
            /\ pc' = "call_auth"
       ELSE /\ pc' = "list"
            /\ UNCHANGED grant
    /\ UNCHANGED << clock, run, yaml, secrets, user, updated_activities, listed,
                    idx, activity, change, weather, location, new, remote, issued,
                    calls, seen,
                    auth, link, code >>

\* the keys call_auth reads from the answer
AuthKeys == { "access_token", "refresh_token", "expires_at" }

\* The answers of the token endpoint to a request made at `now`, the n-th
\* token being the next to issue: a full answer, or an error body that lacks
\* some of the keys
AuthAnswers(n, now) ==
    { [k \in K |-> IF k = "expires_at" THEN now + 21600 ELSE n] :
        K \in SUBSET AuthKeys }

\* The token endpoint issues tokens for a refresh token, and for the
\* authorization code it handed out
Granted(g, c) == g = "refresh_token" \/ c = << Val_code >>

\* Mutation: the three attributes are assigned one after the other, so a
\* KeyError leaves the earlier ones assigned
call_auth_update_Sequential(u, a) ==
    IF "access_token" \notin DOMAIN a THEN [ok |-> FALSE, u |-> u]
    ELSE LET u1 == [u EXCEPT !["access_token"] = << a["access_token"] >>]
         IN  IF "refresh_token" \notin DOMAIN a THEN [ok |-> FALSE, u |-> u1]
             ELSE LET u2 == [u1 EXCEPT !["refresh_token"] = << a["refresh_token"] >>]
                  IN  IF "expires_at" \notin DOMAIN a THEN [ok |-> FALSE, u |-> u2]
                      ELSE [ok |-> TRUE,
                            u |-> [u2 EXCEPT !["expires_at"] = << a["expires_at"] >>]]

\* call_auth, lines 117-119: self.__dict__.update({i: auth[i] for i in (...)}).
\* The dict is built first, so a missing key raises before update is called.
call_auth_update(u, a) ==
    IF AuthKeys \subseteq DOMAIN a
    THEN [ok |-> TRUE, u |-> [k \in Keys |-> IF k \in AuthKeys THEN << a[k] >> ELSE u[k]]]
    ELSE [ok |-> FALSE, u |-> u]

\* User.call_auth: the POST, and the three keys of its answer
CallAuth ==
    /\ pc = "call_auth"
    /\ \/ \E a \in AuthAnswers(issued + 1, clock) :
            LET r == call_auth_update(user, a)
            IN  /\ AuthKeys \subseteq DOMAIN a => Granted(grant, code)
                /\ auth' = << a >>
                /\ calls' = Append(calls, Call("auth", 0, 0, {}, r.ok))
                /\ user' = r.u
                /\ issued' = IF AuthKeys \subseteq DOMAIN a THEN issued + 1 ELSE issued
                /\ pc' = IF ~r.ok THEN "aborted"
                         ELSE IF grant = "refresh_token" THEN "list" ELSE "store"
       \/ /\ calls' = Append(calls, Call("auth", 0, 0, {}, FALSE))
          /\ Abort
          /\ UNCHANGED << user, issued, auth >>
    /\ UNCHANGED << clock, run, yaml, secrets, updated_activities, listed, idx,
                    activity, change, weather, location, new, grant, remote, seen,
                    link, code >>

\* main, line 241: config.get_activities()
ListActivities ==
    /\ pc = "list"
    /\ \/ /\ calls' = Append(calls, Call("list", access_token, 0, {}, TRUE))
          /\ listed' \in Listings(last_check)
          /\ idx' = 1
          /\ pc' = "loop"
       \/ /\ calls' = Append(calls, Call("list", access_token, 0, {}, FALSE))
          /\ Abort
          /\ UNCHANGED << listed, idx >>
    /\ UNCHANGED << clock, run, yaml, secrets, user, updated_activities, activity,
                    change, weather, location, new, grant, remote, issued, seen,
                    auth, link, code >>

\* main, lines 241-243: the next activity of the list, and its detail
NextActivity ==
    /\ pc = "loop"
    /\ IF idx > Len(listed)
       THEN /\ pc' = "store"
            /\ UNCHANGED << user, activity, calls, seen >>
       ELSE /\ user' = [user EXCEPT !["activity_updated"] = << FALSE >>]
            /\ \/ /\ calls' = Append(calls, Call("detail", access_token, listed[idx],
                                                   {}, TRUE))
                  /\ activity' = << remote[listed[idx]] >>
                  /\ seen' = Append(seen, remote[listed[idx]])
                  /\ pc' = "name_check"
               \/ /\ calls' = Append(calls, Call("detail", access_token, listed[idx],
                                                   {}, FALSE))
                  /\ activity' = << ErrorBody >>
                  /\ seen' = Append(seen, ErrorBody)
                  /\ pc' = "name_check"
               \/ /\ calls' = Append(calls, Call("detail", access_token, listed[idx],
                                                   {}, FALSE))
                  /\ Abort
                  /\ UNCHANGED << activity, seen >>
    /\ UNCHANGED << clock, run, yaml, secrets, updated_activities, listed, idx,
                    change, weather, location, new, grant, remote, issued,
                    auth, link, code >>

\* Mutation: the empty special_char is no longer taken as unset
NoSpecialChar_HasattrOnly(u) == ~HasAttr(u, "special_char")

\* not hasattr(config, "special_char") or not config.special_char
NoSpecialChar(u) == ~HasAttr(u, "special_char") \/ Attr(u, "special_char") = << >>

\* Mutation: the first character of the name is not compared
NameDecision_IgnoreMarker(u, a) ==
    IF ~HasAttr(u, "name_template") THEN "skip"
    ELSE IF ~HasAttr(u, "special_char") \/ Attr(u, "special_char") = << >> THEN "update"
    ELSE IF a.name = << >> THEN "error"
    ELSE "update"

\* main, lines 246-248: "update", "skip", or "error" for the IndexError of
\* activity["name"][0] on an empty name
NameDecision(u, a) ==
    IF ~HasAttr(u, "name_template") THEN "skip"
    ELSE IF NoSpecialChar(u) THEN "update"
    ELSE IF a.name = << >> THEN "error"
    ELSE IF << a.name[1] >> = Attr(u, "special_char") THEN "update"
    ELSE "skip"

\* main, lines 252-255: activity.get("description") is falsy for a missing,
\* null or empty description
DesDecision(u, a) ==
    IF ~HasAttr(u, "des_template") THEN "skip"
    ELSE IF NoSpecialChar(u) THEN "update"
    ELSE IF a.description = << >> \/ a.description = << << >> >> THEN "skip"
    ELSE IF << a.description[1][1] >> = Attr(u, "special_char") THEN "update"
    ELSE "skip"

\* update_activity on the body of a non-2xx answer: activity["id"],
\* activity["start_date_local"] and activity["start_latlng"] raise KeyError
\* before the request they are read for, so no call is made and main ends
EntersUpdate(a) == IF a = ErrorBody THEN "aborted" ELSE "fmt_weather"

\* main, lines 246-249
NameCheck ==
    /\ pc = "name_check"
    /\ LET d == NameDecision(user, activity[1])
       IN  /\ pc' = CASE d = "update" -> EntersUpdate(activity[1])
                      [] d = "skip" -> "des_check"
                      [] OTHER -> "aborted"
           /\ change' = IF d = "update" THEN "name" ELSE change
    /\ weather' = << >>
    /\ location' = << >>
    /\ UNCHANGED << clock, run, yaml, secrets, user, updated_activities, listed,
                    idx, activity, new, grant, remote, issued, calls, seen,
                    auth, link, code >>

\* main, lines 252-256
DesCheck ==
    /\ pc = "des_check"
    /\ LET d == DesDecision(user, activity[1])
       IN  /\ pc' = IF d = "update" THEN EntersUpdate(activity[1]) ELSE "count"
           /\ change' = IF d = "update" THEN "description" ELSE change
    /\ weather' = << >>
    /\ location' = << >>
    /\ UNCHANGED << clock, run, yaml, secrets, user, updated_activities, listed,
                    idx, activity, new, grant, remote, issued, calls, seen,
                    auth, link, code >>

\* format_template, lines 183-186
Temp(u, ch) == IF ch = "name" THEN Attr(u, "name_template") ELSE Attr(u, "des_template")

\* Mutation: the weather is fetched when either template mentions it
NeedsWeather_EitherTemplate(u, ch) ==
    \/ HasAttr(u, "name_template") /\ Contains(Text(Attr(u, "name_template")), Str_weather)
    \/ HasAttr(u, "des_template") /\ Contains(Text(Attr(u, "des_template")), Str_weather)

\* format_template, line 189
NeedsWeather(u, ch) == Contains(Text(Temp(u, ch)), Str_weather)

\* format_template, line 192
NeedsLocation(u, ch) == Contains(Text(Temp(u, ch)), Str_location)

\* the "current" record of the weather answer, or None
WeatherAnswers == { << >>, << [t |-> << "5" >>] >> }

\* Mutation: get_weather's check of the key is made for every template
FmtWeather_KeyAlwaysRequired ==
    /\ pc = "fmt_weather"
    /\ IF ~HasAttr(user, "weather_api")
       THEN /\ Abort
            /\ UNCHANGED << weather, calls >>
       ELSE IF ~NeedsWeather(user, change)
       THEN /\ pc' = "fmt_location"
            /\ UNCHANGED << weather, calls >>
       ELSE \/ /\ calls' = Append(calls, Call("weather", 0, activity[1].id, {change},
                                                   TRUE))
               /\ weather' \in WeatherAnswers
               /\ pc' = "fmt_location"
            \/ /\ calls' = Append(calls, Call("weather", 0, activity[1].id, {change},
                                                   FALSE))
               /\ Abort
               /\ UNCHANGED weather
    /\ UNCHANGED << clock, run, yaml, secrets, user, updated_activities, listed,
                    idx, activity, change, location, new, grant, remote, issued,
                    seen, auth, link, code >>

\* Mutation: a failed weather request is swallowed and the rendering goes on
FmtWeather_SwallowFailure ==
    /\ pc = "fmt_weather"
    /\ IF ~NeedsWeather(user, change)
       THEN /\ pc' = "fmt_location"
            /\ UNCHANGED << weather, calls >>
       ELSE IF ~HasAttr(user, "weather_api")
       THEN /\ Abort
            /\ UNCHANGED << weather, calls >>
       ELSE \/ /\ calls' = Append(calls, Call("weather", 0, activity[1].id, {change},
                                                   TRUE))
               /\ weather' \in WeatherAnswers
               /\ pc' = "fmt_location"
            \/ /\ calls' = Append(calls, Call("weather", 0, activity[1].id, {change},
                                                   FALSE))
               /\ pc' = "fmt_location"
               /\ UNCHANGED weather
    /\ UNCHANGED << clock, run, yaml, secrets, user, updated_activities, listed,
                    idx, activity, change, location, new, grant, remote, issued,
                    seen,
                    auth, link, code >>

\* format_template, lines 189-190, with get_weather
FmtWeather ==
    /\ pc = "fmt_weather"
    /\ IF ~NeedsWeather(user, change)
       THEN /\ pc' = "fmt_location"
            /\ UNCHANGED << weather, calls >>
       ELSE IF ~HasAttr(user, "weather_api")
       THEN /\ Abort
            /\ UNCHANGED << weather, calls >>
       ELSE \/ /\ calls' = Append(calls, Call("weather", 0, activity[1].id, {change},
                                                   TRUE))
               /\ weather' \in WeatherAnswers
               /\ pc' = "fmt_location"
            \/ /\ calls' = Append(calls, Call("weather", 0, activity[1].id, {change},
                                                   FALSE))
               /\ Abort
               /\ UNCHANGED weather
    /\ UNCHANGED << clock, run, yaml, secrets, user, updated_activities, listed,
                    idx, activity, change, location, new, grant, remote, issued,
                    seen,
                    auth, link, code >>

\* format_template, lines 192-197, with get_location: the two reverse
\* geocoding calls, then the rendering
FmtLocation ==
    /\ pc = "fmt_location"
    /\ IF ~NeedsLocation(user, change)
       THEN /\ new' = Render(Temp(user, change), weather, << >>)
            /\ pc' = "put"
            /\ UNCHANGED << location, calls >>
       ELSE LET c == Call("geocode", 0, activity[1].id, {change}, TRUE)
                f == Call("geocode", 0, activity[1].id, {change}, FALSE)
            IN  \/ /\ calls' = calls \o << c, c >>
                   /\ location' = << [c |-> << "A" >>], [c |-> << "B" >>] >>
                   /\ new' = Render(Temp(user, change), weather, location')
                   /\ pc' = "put"
                \/ /\ calls' \in { Append(calls, f), calls \o << c, f >> }
                   /\ Abort
                   /\ UNCHANGED << location, new >>
    /\ UNCHANGED << clock, run, yaml, secrets, user, updated_activities, listed,
                    idx, activity, change, weather, grant, remote, issued, seen,
                    auth, link, code >>

\* the remote record after PUT activities/{id} with data {ch: text}
Updated(a, ch, text) ==
    IF ch = "name" THEN [a EXCEPT !.name = text]
    ELSE [a EXCEPT !.description = << text >>]

\* Mutation: the watermark is taken from the clock
WatermarkAfter_Clock(u, a, now) == now

\* update_activity, line 166: the watermark after the PUT answered with a
WatermarkAfter(u, a, now) == ToUnix(a.start_date_local)

\* Mutation: every PUT carries both fields
update_data_Both(ch) == { "name", "description" }

\* update_activity, line 160: the keys of update_data
update_data(ch) == { ch }

\* update_activity, lines 160-169
Put ==
    /\ pc = "put"
    /\ LET id == activity[1].id
       IN  \/ /\ calls' = Append(calls, Call("put", access_token, id,
                                             update_data(change), TRUE))
              /\ remote' = [remote EXCEPT ![id] = Updated(@, change, new)]
              /\ user' = [user EXCEPT
                            !["last_check"] = << WatermarkAfter(user, remote'[id], clock) >>,
                            !["activity_updated"] = << TRUE >>]
              /\ pc' = IF change = "name" THEN "des_check" ELSE "count"
           \/ /\ calls' = Append(calls, Call("put", access_token, id,
                                             update_data(change), FALSE))
              /\ Abort
              /\ UNCHANGED << remote, user >>
    /\ UNCHANGED << clock, run, yaml, secrets, updated_activities, listed, idx,
                    activity, change, weather, location, new, grant, issued, seen,
                    auth, link, code >>

\* Mutation: the counter goes up by one for every field updated
Count_PerField ==
    /\ pc = "count"
    /\ updated_activities' =
          updated_activities +
          Cardinality({ j \in DOMAIN calls : /\ calls[j].op = "put"
                                             /\ calls[j].id = activity[1].id
                                             /\ calls[j].ok })
    /\ idx' = idx + 1
    /\ pc' = "loop"
    /\ UNCHANGED << clock, run, yaml, secrets, user, listed, activity, change,
                    weather, location, new, grant, remote, issued, calls, seen,
                    auth, link, code >>

\* main, lines 259-260
Count ==
    /\ pc = "count"
    /\ updated_activities' = IF Attr(user, "activity_updated")
                             THEN updated_activities + 1 ELSE updated_activities
    /\ idx' = idx + 1
    /\ pc' = "loop"
    /\ UNCHANGED << clock, run, yaml, secrets, user, listed, activity, change,
                    weather, location, new, grant, remote, issued, calls, seen,
                    auth, link, code >>

\* store_secrets, called by main at line 231 and at line 263
Store ==
    /\ pc = "store"
    /\ secrets' = << Stored(user) >>
    /\ pc' = "done"
    /\ UNCHANGED << clock, run, yaml, user, updated_activities, listed, idx,
                    activity, change, weather, location, new, grant, remote, issued,
                    calls, seen,
                    auth, link, code >>

\* The script is started again, an hour later
NextRun ==
    /\ pc \in { "done", "aborted" }
    /\ run < MaxRuns
    /\ run' = run + 1
    /\ clock' = clock + 3600
    /\ pc' = "start"
    /\ user' = NoAttrs
    /\ updated_activities' = 0
    /\ listed' = << >>
    /\ idx' = 0
    /\ activity' = << >>
    /\ change' = "-"
    /\ weather' = << >>
    /\ location' = << >>
    /\ new' = << >>
    /\ grant' = "-"
    /\ calls' = << >>
    /\ seen' = << >>
    /\ auth' = << >>
    /\ link' = << >>
    /\ code' = << >>
    /\ UNCHANGED << yaml, secrets, remote, issued >>

Next ==
    \/ Load
    \/ InitialAuth
    \/ CheckExpiry
    \/ CallAuth
    \/ ListActivities
    \/ NextActivity
    \/ NameCheck
    \/ DesCheck
    \/ FmtWeather
    \/ FmtLocation
    \/ Put
    \/ Count
    \/ Store
    \/ NextRun

Spec == Init /\ [][Next]_vars

----------------------------------------------------------------------------
(* Vocabulary of the properties *)

Fields == { "name", "description" }

TemplateKey(f) == IF f = "name" THEN "name_template" ELSE "des_template"

\* special_char is absent from the config, or is the empty string
Unset(u) == Len(u["special_char"]) = 0 \/ Len(u["special_char"][1]) = 0

\* special_char is one character
SetChar(u) == Len(u["special_char"]) = 1 /\ Len(u["special_char"][1]) = 1

\* field f of activity a is a non-empty string whose first character is c
FirstIs(a, f, c) ==
    LET v == IF f = "name" THEN << a.name >> ELSE a.description
    IN  /\ Len(v) = 1
        /\ Len(v[1]) > 0
        /\ v[1][1] = c

\* field f of activity a is a candidate for update
Candidate(u, a, f) ==
    /\ Len(u[TemplateKey(f)]) = 1
    /\ Unset(u) \/ (SetChar(u) /\ FirstIs(a, f, u["special_char"][1][1]))

NoCandidate(u, a) == \A f \in Fields : ~Candidate(u, a, f)

ApiOps == { "list", "detail", "put" }
EnrichOps == { "weather", "geocode" }

CallsOf(ops) == { j \in DOMAIN calls : calls[j].op \in ops }
PutsFor(i, f) ==
    { j \in CallsOf({"put"}) : calls[j].id = i /\ f \in calls[j].fields }

\* the text of the template of field f mentions sub
Mentions(u, f, sub) ==
    /\ Len(u[TemplateKey(f)]) = 1
    /\ Contains(Text(u[TemplateKey(f)][1]), sub)

----------------------------------------------------------------------------
(* C1: with special_char set to a character c, a field that has a template *)
(* is taken for update exactly when that field of the fetched activity is  *)
(* non-empty and starts with c; an empty or missing field is no error.     *)
C1_CandidateIffMarked ==
    [][ \A f \in Fields :
          ( /\ pc = (IF f = "name" THEN "name_check" ELSE "des_check")
            /\ SetChar(user)
            /\ Len(user[TemplateKey(f)]) = 1 )
          => /\ pc' # "aborted"
             /\ (pc' = "fmt_weather") <=> FirstIs(activity[1], f, user["special_char"][1][1])
      ]_vars

(* C2: with special_char absent or empty, every field that has a template  *)
(* is updated for every activity the loop has handled, whatever the        *)
(* activity's name and description; a field without a template is never    *)
(* updated.                                                                *)
C2_UnsetUpdatesAll ==
    /\ \A j \in CallsOf({"put"}) :
          \A f \in calls[j].fields : Len(user[TemplateKey(f)]) = 1
    /\ Unset(user) =>
          \A k \in 1..Len(seen) : \A f \in Fields :
             (k < idx /\ Len(user[TemplateKey(f)]) = 1)
             => \E j \in PutsFor(seen[k].id, f) : calls[j].ok

C2_Witness ==
    /\ pc = "done"
    /\ Len(user["special_char"]) = 1
    /\ Unset(user)
    /\ \E k \in 1..Len(seen) :
          /\ seen[k].name = << >>
          /\ seen[k].description = << >>
          /\ \A f \in Fields : \E j \in PutsFor(seen[k].id, f) : calls[j].ok

(* C3: last_check never becomes smaller, neither in memory during a run    *)
(* nor in the secrets file from one run to the next.                       *)
C3_WatermarkMonotonic ==
    [][ /\ (Len(user["last_check"]) = 1 /\ Len(user'["last_check"]) = 1)
           => user'["last_check"][1] >= user["last_check"][1]
        /\ (secrets # << >> /\ secrets' # << >>)
           => secrets'[1]["last_check"][1] >= secrets[1]["last_check"][1]
      ]_vars

(* C4: a successful update sets last_check to the unix time of the         *)
(* start_date_local of the record the update returned, and no other step   *)
(* of a scanning run changes last_check.                                   *)
C4_WatermarkFromActivity ==
    [][ /\ (pc = "put" /\ pc' # "aborted")
           => user'["last_check"] =
                 << ToUnix(remote'[activity[1].id].start_date_local) >>
        /\ ( /\ pc \notin { "start", "initial_auth", "done", "aborted" }
             /\ user'["last_check"] # user["last_check"] )
           => (pc = "put" /\ pc' # "aborted")
      ]_vars

C4_Witness ==
    /\ pc \in { "des_check", "count" }
    /\ calls # << >>
    /\ calls[Len(calls)].op = "put"
    /\ calls[Len(calls)].ok
    /\ last_check = ToUnix(remote[activity[1].id].start_date_local)
    /\ last_check # clock

C6_TemplateGating ==
    LET w == { f \in Fields : Mentions(user, f, Str_weather) }
        l == { f \in Fields : Mentions(user, f, Str_location) }
        about(op, a) == { j \in CallsOf({op}) : calls[j].id = a.id }
        using(src, a) == { f \in src : Candidate(user, a, f) }
    IN  /\ \A j \in CallsOf({"weather"}) : calls[j].fields \subseteq w
        /\ \A j \in CallsOf({"geocode"}) : calls[j].fields \subseteq l
        /\ \A k \in 1..Len(seen) :
              /\ about("weather", seen[k]) # {}
                 => Cardinality(about("weather", seen[k])) <= Cardinality(using(w, seen[k]))
              /\ about("geocode", seen[k]) # {}
                 => Cardinality(about("geocode", seen[k])) <= 2 * Cardinality(using(l, seen[k]))

C6_Witness ==
    /\ Mentions(user, "name", Str_weather)
    /\ Mentions(user, "name", Str_location) = FALSE
    /\ Mentions(user, "description", Str_location)
    /\ \E k \in 1..Len(seen) :
          /\ Candidate(user, seen[k], "name") = FALSE
          /\ \E j \in PutsFor(seen[k].id, "description") : calls[j].ok
          /\ \A j \in CallsOf({"weather"}) : calls[j].id # seen[k].id
          /\ \E j \in CallsOf({"geocode"}) : calls[j].id = seen[k].id

(* C7: in a scanning run whose stored expires_at is not later than the     *)
(* clock, every listing, detail and update call comes after a token        *)
(* refresh and carries the token that refresh installed; when the clock is *)
(* before expires_at the run makes no refresh call.                        *)
C7_RefreshBeforeListing ==
    (secrets # << >> /\ grant # "authorization_code" /\ pc \notin { "start", "done" })
    => IF clock >= secrets[1]["expires_at"][1]
       THEN \A j \in CallsOf(ApiOps) :
               /\ \E r \in CallsOf({"auth"}) : r < j /\ calls[r].ok
               /\ calls[j].token = issued
               /\ calls[j].token # secrets[1]["access_token"][1]
       ELSE CallsOf({"auth"}) = {}

C7_Witness ==
    /\ secrets # << >>
    /\ grant = "refresh_token"
    /\ pc = "store"
    /\ clock = secrets[1]["expires_at"][1]
    /\ \E j \in CallsOf({"put"}) : calls[j].ok /\ calls[j].token = issued

(* C8: the initial authorization is entered exactly when no refresh token  *)
(* is stored (secrets.pkl is missing: a stored file always holds one), and *)
(* a run that enters it makes no listing, detail or update call.           *)
C8_InitialAuthOnlyWithoutToken ==
    /\ (pc = "initial_auth" \/ grant = "authorization_code") => CallsOf(ApiOps) = {}
    /\ (pc = "initial_auth" \/ (pc = "call_auth" /\ grant = "authorization_code"))
       => secrets = << >>
    /\ secrets # << >> => "refresh_token" \in DOMAIN secrets[1]
    /\ secrets = << >>
       => /\ CallsOf(ApiOps) = {}
          /\ pc \in { "start", "initial_auth", "call_auth", "store", "aborted" }
          /\ pc \in { "call_auth", "store" } => grant = "authorization_code"

C8_Witness ==
    /\ pc = "done"
    /\ grant = "authorization_code"
    /\ secrets # << >>
    /\ Len(calls) = 1
    /\ calls[1].op = "auth"
    /\ calls[1].ok

C10_OneUpdatePerActivity ==
    \A k \in 1..Len(seen) :
       LET puts == { j \in CallsOf({"put"}) : calls[j].id = seen[k].id }
       IN  /\ Cardinality(puts) <= 1
           /\ \A j \in puts :
                 calls[j].fields = { f \in Fields : Candidate(user, seen[k], f) }

(* C10, amended: every update call carries exactly one field; per activity *)
(* and run at most one update call is made for each field, that of the     *)
(* name before that of the description; and last_check is set from the     *)
(* answer of each successful update call.                                  *)
C10_OneUpdatePerField ==
    /\ \A j \in CallsOf({"put"}) :
          /\ calls[j].fields \in { {"name"}, {"description"} }
          /\ \A m \in CallsOf({"put"}) :
                (m > j /\ calls[m].id = calls[j].id)
                => calls[j].fields = {"name"} /\ calls[m].fields = {"description"}
    /\ \A i \in Ids : \A f \in Fields : Cardinality(PutsFor(i, f)) <= 1
    /\ (calls # << >> /\ calls[Len(calls)].op = "put" /\ calls[Len(calls)].ok)
       => last_check = ToUnix(remote[calls[Len(calls)].id].start_date_local)

C10_Witness ==
    \E i \in Ids :
       /\ \E j \in PutsFor(i, "name") : calls[j].ok
       /\ \E j \in PutsFor(i, "description") : calls[j].ok
       /\ pc = "done"
       /\ updated_activities = 1

----------------------------------------------------------------------------
(* C11: call_auth applies the answer of the token endpoint all or nothing. *)
(* When the answer lacks access_token, refresh_token or expires_at (or     *)
(* there is no answer), the call fails and none of the three attributes    *)
(* changes; when it has all three, the three attributes take the answer's  *)
(* values and no other attribute of the user changes.                      *)
C11_AllOrNothing ==
    [][pc = "call_auth" =>
         IF auth' = << >> \/ ~(AuthKeys \subseteq DOMAIN auth'[1])
         THEN /\ pc' = "aborted"
              /\ \A k \in AuthKeys : user'[k] = user[k]
         ELSE /\ pc' # "aborted"
              /\ \A k \in AuthKeys : user'[k] = << auth'[1][k] >>
              /\ \A k \in Keys \ AuthKeys : user'[k] = user[k]]_vars

\* a refresh was answered with a new access token but no expires_at, and the
\* user still holds the old token
C11_Witness ==
    /\ pc = "aborted"
    /\ grant = "refresh_token"
    /\ auth # << >>
    /\ DOMAIN auth[1] = { "access_token", "refresh_token" }
    /\ Attr(user, "access_token") # auth[1]["access_token"]

----------------------------------------------------------------------------
(* C12: the authorization code sent to the token endpoint is the value of  *)
(* the first parameter named code in the query of the pasted URL, whatever *)
(* the order of the parameters; when no parameter is named code, the flow  *)
(* fails and no token-exchange call is made.                               *)
C12_CodeParameterSent ==
    link # << >> =>
       LET query == link[1]
           named == { i \in 1..Len(query) : query[i].name = "code" }
       IN  IF named = {}
           THEN /\ pc = "aborted"
                /\ \A j \in DOMAIN calls : calls[j].op # "auth"
           ELSE \A i \in named :
                   (\A m \in named : i <= m) => code = << query[i].value >>

----------------------------------------------------------------------------
\* the for loop of main has handled every listed activity
ScanCompleted ==
    /\ \E j \in DOMAIN calls : calls[j].op = "list" /\ calls[j].ok
    /\ idx = Len(listed) + 1
    /\ Len(seen) = Len(listed)

\* the token exchange of the initial authorization has just succeeded
AuthCompleted ==
    /\ grant = "authorization_code"
    /\ calls # << >>
    /\ calls[Len(calls)].op = "auth"
    /\ calls[Len(calls)].ok

----------------------------------------------------------------------------
(* C14: with no weather_api in the config, rendering a template whose text *)
(* mentions weather fails before any weather request and before the update *)
(* call of that field, and rendering a template that does not mention      *)
(* weather goes on without error; no weather request is ever sent without  *)
(* the key.                                                                *)
C14_MissingWeatherKey ==
    [][/\ (pc = "fmt_weather" /\ ~HasAttr(user, "weather_api")) =>
            /\ calls' = calls /\ remote' = remote
            /\ IF Mentions(user, change, Str_weather)
               THEN pc' = "aborted"
               ELSE pc' = "fmt_location"
       /\ ~HasAttr(user', "weather_api") =>
            \A j \in DOMAIN calls' : calls'[j].op # "weather"]_vars

\* the run stopped at a field whose template mentions weather, with no key,
\* no weather request and no update call for that field
C14_Witness ==
    /\ pc = "aborted"
    /\ activity # << >>
    /\ change \in Fields
    /\ ~HasAttr(user, "weather_api")
    /\ Mentions(user, change, Str_weather)
    /\ CallsOf({"weather"}) = {}
    /\ PutsFor(activity[1].id, change) = {}
    /\ calls[Len(calls)].ok

----------------------------------------------------------------------------
\* config.yaml has both client fields and at least one template
ValidConfig(y) ==
    /\ Len(y.client_id) = 1
    /\ Len(y.client_secret) = 1
    /\ Len(y.name_template) = 1 \/ Len(y.des_template) = 1

(* C15: constructing the User fails when client_id or client_secret is     *)
(* missing from the config or when it has neither template, and succeeds   *)
(* otherwise; a run whose construction failed makes no remote call and     *)
(* leaves secrets.pkl as it was, with or without a secrets.pkl.            *)
C15_RequiredFields ==
    [][/\ pc = "start" =>
            IF ValidConfig(yaml)
            THEN pc' = (IF secrets = << >> THEN "initial_auth" ELSE "check_expiry")
            ELSE pc' = "aborted"
       /\ ~ValidConfig(yaml) =>
            /\ pc' \in { "start", "aborted" }
            /\ calls' = << >>
            /\ secrets' = secrets]_vars

\* a second run with a stored secrets.pkl and a config without client_secret
C15_Witness ==
    /\ pc = "aborted"
    /\ run = 2
    /\ secrets # << >>
    /\ HasAttr(user, "client_id") /\ HasAttr(user, "name_template")
    /\ ~HasAttr(user, "client_secret")
    /\ calls = << >>

----------------------------------------------------------------------------
\* the activities that got an answered update call in this run
UpdatedIds ==
    { i \in Ids : \E j \in CallsOf({"put"}) : calls[j].id = i /\ calls[j].ok }

(* C16: between two activities of the loop, and at the end of the run, the *)
(* counter updated_activities is the number of activities of this run for  *)
(* which at least one field was updated: an activity with both fields      *)
(* updated counts once, one with none does not count.                      *)
C16_CountsUpdatedActivities ==
    pc \in { "loop", "store", "done" } => updated_activities = Cardinality(UpdatedIds)

\* a completed run over two activities: both fields of the first one were
\* updated, none of the second, and the counter is one
C16_Witness ==
    /\ pc = "done"
    /\ Len(listed) = 2
    /\ (\E j \in PutsFor(listed[1], "name") : calls[j].ok)
    /\ (\E j \in PutsFor(listed[1], "description") : calls[j].ok)
    /\ UpdatedIds = { listed[1] }
    /\ updated_activities = 1

----------------------------------------------------------------------------
(* C17: the run aborts on the first failure: after a remote call that      *)
(* failed no further remote call is made in the run and the run does not   *)
(* reach store_secrets; a scanning run that finishes has fetched every     *)
(* listed activity exactly once, in the order of the listing.              *)
C17_AbortOnFirstFailure ==
    /\ \A j \in DOMAIN calls :
          ~calls[j].ok => j = Len(calls) /\ pc \notin { "store", "done" }
    /\ (pc = "done" /\ grant # "authorization_code") =>
          LET details == SelectSeq(calls, LAMBDA c : c.op = "detail")
          IN  /\ Len(details) = Len(listed)
              /\ \A k \in 1..Len(listed) : details[k].id = listed[k]

----------------------------------------------------------------------------
(* C18: when a scanning run has finished and written secrets.pkl, every    *)
(* activity updated in that run starts no later than the last_check that   *)
(* was written, so the next listing (after=last_check) leaves it out,      *)
(* whatever the order of the listing was.                                  *)
C18_WatermarkCoversUpdated ==
    (pc = "done" /\ grant # "authorization_code") =>
       \A i \in UpdatedIds :
          ToUnix(remote[i].start_date_local) <= secrets[1]["last_check"][1]

----------------------------------------------------------------------------
(* C19: the record store_secrets writes has no key outside access_token,   *)
(* refresh_token, expires_at and last_check, whatever other attributes the *)
(* user holds; written after a successful initial authorization or a       *)
(* completed scanning run, it has all four, each with the value the user   *)
(* holds at that moment.                                                   *)
C19_StoredRecord ==
    [][(pc = "store" \/ secrets' # secrets) =>
         /\ secrets' # << >>
         /\ DOMAIN secrets'[1] \subseteq SecretKeys
         /\ (AuthCompleted \/ ScanCompleted) =>
               /\ DOMAIN secrets'[1] = SecretKeys
               /\ \A k \in SecretKeys : secrets'[1][k] = user[k]]_vars

\* a completed scanning run with a refreshed token: the user holds config
\* keys, an unknown key and the loop's flag, the file the four secrets
C19_Witness ==
    /\ pc = "done"
    /\ ScanCompleted
    /\ HasAttr(user, "other") /\ HasAttr(user, "weather_api")
    /\ HasAttr(user, "activity_updated")
    /\ DOMAIN secrets[1] = SecretKeys
    /\ secrets[1]["access_token"] = << 2 >>
    /\ secrets[1]["last_check"] = user["last_check"]
    /\ Attr(user, "last_check") > Clock0

====
